---------------------------- MODULE Spec2Model ----------------------------
(***************************************************************************)
(* A model of the spellbook training sweep:                                *)
(*   - src/models.py: the Head Composer (buildClassificationImageNetModel) *)
(*     and the Layer-Freeze Controller (unfreezeModel);                    *)
(*   - src/magicClassification.py: the fold/model sweep orchestrator       *)
(*     (classificationCustom), its fold splitting, its loss function and   *)
(*     its renaming of the optimizer variables;                            *)
(*   - the Training Loop it calls (module train), after its description;   *)
(*   - src/globalVariables.py: the configuration the two read.             *)
(*                                                                         *)
(* A model graph is the sequence model.layers, each layer a record         *)
(*   [kind, role, arg, src, trainable].                                    *)
(* Python's None is the string "None"; units and rates are strings too,    *)
(* as the code never computes with them.  A ladder (FC_LAYERS,             *)
(* DROPOUT_RATES) is [isNone, items], because the tuple itself may be None.*)
(***************************************************************************)
EXTENDS Integers, Sequences, FiniteSets, TLC

VARIABLES
    cfg,          \* the configuration (globalVariables.py), fixed for a run
    pc,           \* the position of the controlling thread
    built,        \* the model as the builder (or load_model) returned it
    model,        \* the object bound to the name `model`
    req,          \* the num_layers argument of the last unfreezeModel call
    span,         \* the indices of model.layers the last unfreezeModel visited
    mi,           \* index of model_name in MODELS_CLASSIFICATION
    fold,         \* the fold of the k-fold loop (0-based), 0 without k-fold
    iter,         \* the number of the current (model, fold) iteration
    bound,        \* local name -> the iteration whose object it refers to, 0 unbound
    err,          \* the exception that ended the sweep, or None
    log,          \* how often each phase and each step of TEARDOWN completed
    replica_losses, \* one train step: per replica, the per-example losses
    total_loss,   \* one train step: the aggregated loss, a fraction, or None
    kperm,        \* the order KFold's generator, seeded with RANDOM_STATE,
                  \* gives the indices of a list of this length
    run,          \* which run of the sweep this is (fold splitting), 0 if none
    data_paths_list_shuffled, \* the path list after shuffle(data_paths_list)
    splits,       \* run -> the (train_paths_list, val_paths_list) of its folds
    n_weights,    \* len(optimizer.weights) when BIND_OPTIMIZER_NAMES runs
    opt_names,    \* per iteration, the names given to the optimizer variables
    val_losses,   \* Training Loop: the validation loss of each epoch, hundredths
    train_losses, \* Training Loop: the training loss of each epoch, hundredths
    patience,     \* Training Loop: EARLY_STOPPING_PATIENCE
    epoch,        \* Training Loop: the epochs that have run
    best,         \* Training Loop: <<the best validation loss so far>>, or <<>>
    wait,         \* Training Loop: the epochs since the last improvement
    checkpoints,  \* Training Loop: the epochs whose weights were written
    terminal      \* Training Loop: the terminal state, or None while running

\* the variables of one data-parallel train step
lossVars == <<replica_losses, total_loss>>

\* the variables of the fold splitting
foldVars == <<kperm, run, data_paths_list_shuffled, splits>>

\* the variables of the optimizer-variable renaming
optVars == <<n_weights, opt_names>>

\* the variables of the Training Loop
trainVars ==
    <<val_losses, train_losses, patience, epoch, best, wait, checkpoints,
      terminal>>

\* the variables the sweep itself leaves alone
stepVars == <<lossVars, foldVars, optVars, trainVars>>

vars ==
    <<cfg, pc, built, model, req, span, mi, fold, iter, bound, err, log,
      stepVars>>

\* the variables of the sweep that the builder-only specifications leave alone
sweepVars == <<mi, fold, iter, bound, err, log>>

---------------------------------------------------------------------------
(* Bounds of the model *)

\* longest FC / dropout ladder enumerated
MaxLadder == 2
\* longest ladder enumerated where the entries take several values
MaxPairs == 3
\* most auxiliary-feature groups (entries of NUM_ADD_CLASSES) enumerated
MaxAux == 2
\* largest per-backbone unfreeze count enumerated
MaxUnfreeze == 4
\* largest per-example loss enumerated, in sixteenths
MaxLoss == 3
\* longest path list enumerated
MaxPaths == 5
\* most optimizer variables present when they are renamed
MaxOptVars == 2
\* the paths of one file part: MAX_FILES_PER_PART of globalVariables.py
\* (1000 there), scaled to the path lists enumerated
MAX_FILES_PER_PART == 2
\* most epochs of one Training Loop (NUM_EPOCHS - START_EPOCH)
MaxEpochs == 3
\* largest EARLY_STOPPING_PATIENCE enumerated
MaxPatience == 2
\* layers of the abstract BatchNormalization-bearing backbone body
DepthInception == 14
\* layers of the abstract VGG backbone body (no BatchNormalization)
DepthVGG == 13

---------------------------------------------------------------------------
(* Python helpers *)

None == "None"

Min(a, b) == IF a < b THEN a ELSE b
Max(a, b) == IF a > b THEN a ELSE b

\* the sequences over S of length at most n
SeqUpTo(S, n) == UNION {[1..k -> S] : k \in 0..n}

\* a Python slice bound i on a list of length L, as a 0-based offset
PyBound(i, L) == IF i < 0 THEN Max(L + i, 0) ELSE Min(i, L)

\* the 1-based indices of lst[start:stop] for a list of length L
PySlice(L, start, stop) ==
    {k \in 1..L : PyBound(start, L) < k /\ k <= PyBound(stop, L)}

NoneLadder == [isNone |-> TRUE, items |-> <<>>]
Lad(s) == [isNone |-> FALSE, items |-> s]

\* the number of non-None entries of a sequence
RECURSIVE CountNonNone(_)
CountNonNone(s) ==
    IF s = <<>> THEN 0
    ELSE (IF Head(s) # None THEN 1 ELSE 0) + CountNonNone(Tail(s))

---------------------------------------------------------------------------
(* Layers *)

Layer(kind, role, arg, src, trainable) ==
    [kind |-> kind, role |-> role, arg |-> arg, src |-> src,
     trainable |-> trainable]

VGGFamily == {"VGG16", "VGG19"}

\* The Backbone Adapter: model_imagenet(include_top=False, input_tensor=
\* inputs[0], ...) followed by imagenet_model.trainable = False, which
\* clears the flag of every layer of the backbone, its InputLayer included.
\* The body is abstract: convolutions, every second layer a
\* BatchNormalization except in the VGG family, which has none.
imagenet_model(model_name) ==
    LET depth == IF model_name \in VGGFamily THEN DepthVGG ELSE DepthInception
        body == [i \in 1..depth |->
                   IF model_name \notin VGGFamily /\ i % 2 = 0
                   THEN Layer("BatchNormalization", "backbone", None, None, FALSE)
                   ELSE Layer("Conv2D", "backbone", None, None, FALSE)]
    IN  <<Layer("InputLayer", "input_data_layer", None, None, FALSE)>> \o body

\* the auxiliary-feature input nodes inputs[1:], in declaration order
AuxInputs(numAux) ==
    [i \in 1..numAux |-> Layer("InputLayer", "input_features_layer", None, None, TRUE)]


---------------------------------------------------------------------------
(* Head Composer: buildClassificationImageNetModel (src/models.py) *)

\* a loop that never sets concat_layer to None: every dense layer of the
\* ladder consumes the early-fusion output
RECURSIVE LadderLoop_KeepFusion(_, _, _, _)
LadderLoop_KeepFusion(fc, dr, i, pending) ==
    IF i > Min(Len(fc), Len(dr)) THEN <<>>
    ELSE IF fc[i] = None THEN LadderLoop_KeepFusion(fc, dr, i + 1, pending)
    ELSE <<Layer("Dense", "fc", fc[i],
                 IF pending THEN "concat_layer" ELSE "feature_extractor", TRUE)>>
         \o (IF dr[i] = None THEN <<>>
             ELSE <<Layer("Dropout", "fc_dropout", dr[i], "feature_extractor", TRUE)>>)
         \o LadderLoop_KeepFusion(fc, dr, i + 1, pending)

\* The FC/dropout ladder: the loop over zip(fc_layers, dropout_rates).
\* `pending` is "concat_layer is not None": the first dense layer built
\* consumes the early-fusion output and sets concat_layer to None.
RECURSIVE LadderLoop(_, _, _, _)
LadderLoop(fc, dr, i, pending) ==
    IF i > Min(Len(fc), Len(dr)) THEN <<>>
    ELSE IF fc[i] = None THEN LadderLoop(fc, dr, i + 1, pending)
    ELSE <<Layer("Dense", "fc", fc[i],
                 IF pending THEN "concat_layer" ELSE "feature_extractor", TRUE)>>
         \o (IF dr[i] = None THEN <<>>
             ELSE <<Layer("Dropout", "fc_dropout", dr[i], "feature_extractor", TRUE)>>)
         \o LadderLoop(fc, dr, i + 1, FALSE)

\* a loop without the first "continue": a null units entry still gets its dropout
RECURSIVE LadderLoop_NoSkip(_, _, _, _)
LadderLoop_NoSkip(fc, dr, i, pending) ==
    IF i > Min(Len(fc), Len(dr)) THEN <<>>
    ELSE (IF fc[i] = None THEN <<>>
          ELSE <<Layer("Dense", "fc", fc[i],
                       IF pending THEN "concat_layer" ELSE "feature_extractor", TRUE)>>)
         \o (IF dr[i] = None THEN <<>>
             ELSE <<Layer("Dropout", "fc_dropout", dr[i], "feature_extractor", TRUE)>>)
         \o LadderLoop_NoSkip(fc, dr, i + 1, pending /\ fc[i] = None)

Ladder_NoSkip(fc, dr, pending) == LadderLoop_NoSkip(fc, dr, 1, pending)

Ladder(fc, dr, pending) == LadderLoop(fc, dr, 1, pending)

\* "(fc_layers is not None) or (dropout_rates is not None)": the loop is entered
LadderEntered(fc_layers, dropout_rates) ==
    ~fc_layers.isNone \/ ~dropout_rates.isNone

\* zip() of None raises TypeError
LadderRaises(fc_layers, dropout_rates) ==
    /\ LadderEntered(fc_layers, dropout_rates)
    /\ (fc_layers.isNone \/ dropout_rates.isNone)

\* tf.keras.Model(inputs=inputs, outputs=...): model.layers in Keras order.
\* Keras sorts layers by decreasing depth from the outputs and, within one
\* depth, by traversal order, so the auxiliary InputLayers come right after
\* the layer that feeds the Concatenate they feed; an input that reaches no
\* output has depth 0 and is placed before the output layer.
KerasLayers(backbone, pre, early, ladder, late, pred, aux) ==
    LET fused == early # <<>> \/ late # <<>>
        chain == backbone \o pre
                 \o (IF early # <<>> THEN aux \o early ELSE <<>>)
                 \o ladder
                 \o (IF late # <<>> THEN aux \o late ELSE <<>>)
                 \o pred
    IN  IF fused THEN chain
        ELSE SubSeq(chain, 1, Len(chain) - 1) \o aux
             \o SubSeq(chain, Len(chain), Len(chain))

buildClassificationImageNetModel(numAux, model_name, do_batch_norm, initial_dropout, concat_features_before, concat_features_after, fc_layers, dropout_rates, do_predictions) ==
    LET backbone == imagenet_model(model_name)
        pre == (IF do_batch_norm
                THEN <<Layer("BatchNormalization", "head_batch_norm", None,
                             "feature_extractor", TRUE)>>
                ELSE <<>>)
               \o (IF initial_dropout # None
                   THEN <<Layer("Dropout", "initial_dropout", initial_dropout,
                                "feature_extractor", TRUE)>>
                   ELSE <<>>)
        ladder == IF LadderEntered(fc_layers, dropout_rates)
                  THEN Ladder(fc_layers.items, dropout_rates.items,
                              concat_features_before)
                  ELSE <<>>
        \* the early Concatenate is part of the graph only if a dense layer of
        \* the ladder consumed it; otherwise line 305/301 drops the reference
        earlyUsed == /\ concat_features_before
                     /\ \E i \in 1..Len(ladder) : ladder[i].src = "concat_layer"
        early == IF earlyUsed
                 THEN <<Layer("Concatenate", "concat_features", "before",
                              "feature_extractor", TRUE)>>
                 ELSE <<>>
        late == IF concat_features_after
                THEN <<Layer("Concatenate", "concat_features", "after",
                             "feature_extractor", TRUE)>>
                ELSE <<>>
        pred == IF do_predictions
                THEN <<Layer("Dense", "predictions", "num_classes",
                             IF concat_features_after THEN "concat_layer"
                             ELSE "feature_extractor", TRUE)>>
                ELSE <<>>
    IN  IF LadderRaises(fc_layers, dropout_rates)
        THEN [status |-> "TypeError", layers |-> <<>>]
        \* two layers named 'concat_features' in one graph: Keras refuses
        ELSE IF earlyUsed /\ concat_features_after
        THEN [status |-> "ValueError", layers |-> <<>>]
        ELSE [status |-> "ok",
              layers |-> KerasLayers(backbone, pre, early, ladder, late, pred,
                                     AuxInputs(numAux))]

\* lines 436-440: "for idx, (features, activation) in
\* enumerate(predictions_features)" unpacks every entry into two names, and
\* the layer name is 'prediction_layer_' + idx.  The orchestrator passes
\* NUM_ADD_CLASSES, a list of ints: the first entry cannot be unpacked.
PredictionHeadsRaise(predictions_features) == predictions_features >= 1

\* lines 404-446: buildDenoisingAutoencoder, given the graph of the
\* classifier and the number of entries of predictions_features.  With no
\* entry the loop is skipped and tf.keras.models.Model is given an empty
\* list of outputs: `accepts` says whether Keras takes it.
buildDenoisingAutoencoder(classification_model, predictions_features, accepts) ==
    LET heads == [i \in 1..predictions_features |->
                    Layer("Dense", "prediction_layer", None,
                          "dense_decoder_layer", TRUE)]
        res(st, outs) ==
            [status |-> st, layers |-> <<>>, outputs |-> outs,
             builder |-> "buildDenoisingAutoencoder"]
    IN  IF classification_model.status # "ok"
        THEN res(classification_model.status, <<>>)
        ELSE IF PredictionHeadsRaise(predictions_features)
        THEN res("TypeError", <<>>)
        ELSE IF accepts THEN res("ok", heads)
        ELSE res("ValueError", <<>>)

---------------------------------------------------------------------------
(* Layer-Freeze Controller: unfreezeModel (src/models.py) *)

\* a tail that forgets the batch-norm layer and the ladder
num_last_layers_Fixed(num_input_layers, batch_norm) ==
    3 + num_input_layers

\* models.py imports FC_LAYERS and DROPOUT_RATES from globalVariables
num_last_layers(num_input_layers, batch_norm) ==
    3 + num_input_layers
      + (IF batch_norm THEN 1 ELSE 0)
      + (IF ~cfg.FC_LAYERS.isNone
         THEN CountNonNone(cfg.FC_LAYERS.items)
              + CountNonNone(cfg.DROPOUT_RATES.items)
         ELSE 0)

\* "for layer in DROPOUT_RATES" with DROPOUT_RATES None raises TypeError
UnfreezeRaises == ~cfg.FC_LAYERS.isNone /\ cfg.DROPOUT_RATES.isNone

\* model.layers[-num_layers_unfreeze + 1: -num_last_layers]
UnfreezeSpan(L, num_input_layers, batch_norm, num_layers) ==
    LET T == num_last_layers(num_input_layers, batch_norm)
        num_layers_unfreeze == num_layers + T
    IN  PySlice(L, -num_layers_unfreeze + 1, -T)

\* a loop that forgets the isinstance test
Unfreezable_Any(layer) == TRUE

\* the test of line 103
Unfreezable(layer) == layer.kind # "BatchNormalization"

unfreezeModel(layers, num_input_layers, batch_norm, num_layers) ==
    LET sp == UnfreezeSpan(Len(layers), num_input_layers, batch_norm, num_layers)
    IN  [i \in 1..Len(layers) |->
           IF i \in sp /\ Unfreezable(layers[i])
           THEN [layers[i] EXCEPT !.trainable = TRUE]
           ELSE layers[i]]

---------------------------------------------------------------------------
(* Configuration: src/globalVariables.py *)

\* the values the repository ships; MODELS is the key order of
\* MODELS_CLASSIFICATION (src/models.py), NUM_ADD_CLASSES its length, and
\* NUM_UNFREEZE_LAYERS the table entry of the backbones outside the VGG
\* family, scaled to the abstract backbone (63 of InceptionV3's 311 layers)
Shipped ==
    [MODELS |-> <<"InceptionV3">>,
     USE_TFIMM_MODELS |-> FALSE,
     LOAD_FEATURES |-> TRUE,
     NUM_ADD_CLASSES |-> 1,
     CONCAT_FEATURES_BEFORE |-> FALSE,
     CONCAT_FEATURES_AFTER |-> FALSE,
     INITIAL_DROPOUT |-> None,
     DO_BATCH_NORM |-> FALSE,
     FC_LAYERS |-> NoneLadder,
     DROPOUT_RATES |-> NoneLadder,
     DO_PREDICTIONS |-> FALSE,
     UNFREEZE |-> TRUE,
     UNFREEZE_FULL |-> FALSE,
     LOAD_WEIGHTS |-> FALSE,
     LOAD_MODEL |-> FALSE,
     DO_VALIDATION |-> TRUE,
     DO_KFOLD |-> TRUE,
     OPTIMIZER |-> "Adam",
     LR_EXP |-> FALSE,
     LR_LADDER |-> FALSE,
     REDUCE_LR_PLATEAU |-> TRUE,
     BUILD_AUTOENCODER |-> FALSE,
     NUM_UNFREEZE_LAYERS |-> MaxUnfreeze]

\* the ladders over the given entries, None or a tuple of at most n entries
Ladders(entries, n) ==
    {NoneLadder} \cup {Lad(s) : s \in SeqUpTo(entries \cup {None}, n)}

\* the input layers the orchestrator declares: the image input plus, with
\* LOAD_FEATURES, one per entry of NUM_ADD_CLASSES
NumAux == IF cfg.LOAD_FEATURES THEN cfg.NUM_ADD_CLASSES ELSE 0

NoModel == [status |-> "unbound", layers |-> <<>>]

\* no train step is under way
LossIdle == replica_losses = <<>> /\ total_loss = None

\* no path list has been read
FoldIdle ==
    /\ kperm = <<>>
    /\ run = 0
    /\ data_paths_list_shuffled = <<>>
    /\ splits = <<>>

\* no optimizer variable has been renamed
OptIdle == n_weights = 0 /\ opt_names = <<>>

\* no Training Loop is running
TrainIdle ==
    /\ val_losses = <<>>
    /\ train_losses = <<>>
    /\ patience = 0
    /\ epoch = 0
    /\ best = <<>>
    /\ wait = 0
    /\ checkpoints = <<>>
    /\ terminal = None

StepIdle == LossIdle /\ FoldIdle /\ OptIdle /\ TrainIdle

---------------------------------------------------------------------------
(* The Head Composer and the Layer-Freeze Controller on their own: every     *)
(* head configuration, then every unfreeze request.                          *)

HeadConfigs ==
    {[Shipped EXCEPT !.MODELS = <<m>>,
                     !.NUM_ADD_CLASSES = a,
                     !.DO_BATCH_NORM = bn,
                     !.INITIAL_DROPOUT = d0,
                     !.CONCAT_FEATURES_BEFORE = cb,
                     !.CONCAT_FEATURES_AFTER = ca,
                     !.FC_LAYERS = fc,
                     !.DROPOUT_RATES = dr,
                     !.DO_PREDICTIONS = dp] :
        m \in {"InceptionV3", "VGG16"}, a \in 0..MaxAux, bn \in BOOLEAN,
        d0 \in {None, "0.2"}, cb \in BOOLEAN, ca \in BOOLEAN,
        fc \in Ladders({"128"}, MaxLadder), dr \in Ladders({"0.5"}, MaxLadder),
        dp \in BOOLEAN}

HeadInit ==
    /\ cfg \in HeadConfigs
    /\ pc = "BUILD"
    /\ built = NoModel
    /\ model = NoModel
    /\ req = 0
    /\ span = {}
    /\ mi = 1
    /\ fold = 0
    /\ iter = 1
    /\ bound = [n \in {} |-> 0]
    /\ err = None
    /\ log = [p \in {} |-> 0]
    /\ StepIdle

\* a call of the builder with the parameters it declares
HeadBuild ==
    /\ pc = "BUILD"
    /\ LET m == buildClassificationImageNetModel(
                    NumAux, cfg.MODELS[1], cfg.DO_BATCH_NORM,
                    cfg.INITIAL_DROPOUT, cfg.CONCAT_FEATURES_BEFORE,
                    cfg.CONCAT_FEATURES_AFTER, cfg.FC_LAYERS,
                    cfg.DROPOUT_RATES, cfg.DO_PREDICTIONS)
       IN  /\ built' = m
           /\ model' = m
           /\ pc' = IF m.status = "ok" THEN "UNFREEZE" ELSE "ERROR"
    /\ UNCHANGED <<cfg, req, span>>
    /\ UNCHANGED sweepVars
    /\ UNCHANGED stepVars

\* unfreezeModel(model, len(input_layers), DO_BATCH_NORM, to_unfreeze), for a
\* per-backbone count or for the layer count the orchestrator passes to
\* unfreeze everything
HeadUnfreeze ==
    /\ pc = "UNFREEZE"
    /\ \E n \in (1..MaxUnfreeze) \cup {Len(model.layers)} :
          /\ req' = n
          /\ IF UnfreezeRaises
             THEN /\ pc' = "ERROR"
                  /\ UNCHANGED <<model, span>>
             ELSE /\ pc' = "DONE"
                  /\ span' = UnfreezeSpan(Len(model.layers), 1 + NumAux,
                                          cfg.DO_BATCH_NORM, n)
                  /\ model' = [model EXCEPT !.layers =
                                  unfreezeModel(model.layers, 1 + NumAux,
                                                cfg.DO_BATCH_NORM, n)]
    /\ UNCHANGED <<cfg, built>>
    /\ UNCHANGED sweepVars
    /\ UNCHANGED stepVars

\* a call of buildDenoisingAutoencoder with predictions_features =
\* NUM_ADD_CLASSES, as lines 115-130 pass it
HeadBuildAutoencoder ==
    /\ pc = "BUILD"
    /\ built' = buildClassificationImageNetModel(
                     NumAux, cfg.MODELS[1], cfg.DO_BATCH_NORM,
                     cfg.INITIAL_DROPOUT, cfg.CONCAT_FEATURES_BEFORE,
                     cfg.CONCAT_FEATURES_AFTER, cfg.FC_LAYERS,
                     cfg.DROPOUT_RATES, cfg.DO_PREDICTIONS)
    /\ \E accepts \in BOOLEAN :
         model' = buildDenoisingAutoencoder(built', cfg.NUM_ADD_CLASSES, accepts)
    /\ pc' = IF model'.status = "ok" THEN "AUTOENCODER" ELSE "ERROR"
    /\ UNCHANGED <<cfg, req, span>>
    /\ UNCHANGED sweepVars
    /\ UNCHANGED stepVars

HeadNext == HeadBuild \/ HeadUnfreeze \/ HeadBuildAutoencoder

SpecHead == HeadInit /\ [][HeadNext]_vars

---------------------------------------------------------------------------
(* Properties of the Layer-Freeze Controller and the Head Composer (SpecHead) *)

HeadRoles ==
    {"head_batch_norm", "initial_dropout", "concat_features", "fc",
     "fc_dropout", "predictions"}

IsHead(layer) == layer.role \in HeadRoles

\* the layers of the model that are not the backbone's: the head layers and
\* the auxiliary-feature inputs
NonBackbone(layers) ==
    {i \in 1..Len(layers) : layers[i].role \notin {"backbone", "input_data_layer"}}

\* the structural tail unfreezeModel computes for the orchestrator's call
TailLen == num_last_layers(1 + NumAux, cfg.DO_BATCH_NORM)

\* the layers whose flag unfreezeModel turned from False to True
Marked ==
    {i \in 1..Len(model.layers) :
        model.layers[i].trainable /\ ~built.layers[i].trainable}

\* C5: for a count n >= 1 and a model of at least n + T layers, unfreezeModel
\* visits exactly the n layers that end right before the structural tail of
\* T layers, and marks those of them that are not BatchNormalization.
C5_MarksExactlyN ==
    (pc = "DONE" /\ req >= 1 /\ Len(model.layers) >= req + TailLen) =>
        LET L == Len(model.layers)
            claimed == (L - TailLen - req + 1)..(L - TailLen)
        IN  /\ span = claimed
            /\ Cardinality(span) = req
            /\ Marked = {i \in claimed :
                            /\ model.layers[i].kind # "BatchNormalization"
                            /\ ~built.layers[i].trainable}

\* C6: unfreezeModel never turns a BatchNormalization layer from
\* non-trainable to trainable, whatever the count (unfreeze-all included)
\* and wherever the layer lies in the span.
C6_BatchNormStaysFrozen ==
    pc = "DONE" =>
        \A i \in 1..Len(model.layers) :
            model.layers[i].kind = "BatchNormalization" =>
                model.layers[i].trainable = built.layers[i].trainable

\* C6 witness: an unfreeze-all whose span holds a frozen BatchNormalization
\* layer next to layers it did mark.
C6_Witness ==
    /\ pc = "DONE"
    /\ req = Len(model.layers)
    /\ Marked # {}
    /\ \E i \in span : /\ model.layers[i].kind = "BatchNormalization"
                       /\ ~model.layers[i].trainable

\* C7: for every head the Head Composer builds and every count, the span
\* unfreezeModel visits holds no head layer (nor an auxiliary input), and the
\* tail it computes is at least as long as the layers added to the backbone.
C7_SpanExcludesHead ==
    pc = "DONE" =>
        /\ \A i \in span : ~IsHead(model.layers[i])
        /\ span \cap NonBackbone(model.layers) = {}
        /\ TailLen >= Cardinality(NonBackbone(model.layers))

\* C7 witness: the tightest head (batch-norm, initial dropout, early fusion,
\* a full ladder, a prediction layer, MaxAux inputs), one layer short of the
\* tail, with a non-empty span.
C7_Witness ==
    /\ pc = "DONE"
    /\ span # {}
    /\ cfg.DO_BATCH_NORM /\ cfg.INITIAL_DROPOUT # None
    /\ cfg.CONCAT_FEATURES_BEFORE /\ cfg.DO_PREDICTIONS
    /\ \E i \in 1..Len(model.layers) : model.layers[i].role = "fc_dropout"
    /\ \E i \in 1..Len(model.layers) : model.layers[i].role = "concat_features"
    /\ TailLen = Cardinality(NonBackbone(model.layers)) + 1

\* C8: unfreezeModel leaves the trainable flag of every input node (the
\* image input and the auxiliary-feature inputs) as it was, for every count,
\* unfreeze-all included.
C8_InputNodesUntouched ==
    pc = "DONE" =>
        \A i \in 1..Len(model.layers) :
            model.layers[i].kind = "InputLayer" =>
                model.layers[i].trainable = built.layers[i].trainable

\* C18: for every list of at least one declared auxiliary-feature group,
\* given a classifier that builds, buildDenoisingAutoencoder returns a model
\* with one prediction head per group, in declaration order, each fed from
\* the decoder output.
C18_OneHeadPerGroup ==
    (/\ pc # "BUILD"
     /\ "builder" \in DOMAIN model
     /\ built.status = "ok"
     /\ cfg.NUM_ADD_CLASSES >= 1) =>
        /\ model.status = "ok"
        /\ Len(model.outputs) = cfg.NUM_ADD_CLASSES
        /\ \A i \in 1..Len(model.outputs) :
              model.outputs[i].src = "dense_decoder_layer"

\* C10: a build with concat_features_before and concat_features_after both
\* true ends in an error and returns no model graph.
C10_BothFusionsRejected ==
    (pc # "BUILD" /\ cfg.CONCAT_FEATURES_BEFORE /\ cfg.CONCAT_FEATURES_AFTER) =>
        built.status # "ok"

\* the early-fusion Concatenate is a layer of the graph: tf.keras.Model keeps
\* the layers its outputs are computed from (and the inputs), so the output
\* is downstream of the Concatenate iff model.layers holds it
EarlyFusionInGraph(layers) ==
    \E i \in 1..Len(layers) :
        layers[i].role = "concat_features" /\ layers[i].arg = "before"

\* C22: whenever early fusion is enabled and the builder returns a graph, the
\* graph output is downstream of the early-fusion concatenation, so every
\* auxiliary-feature input contributes to the output, for every ladder
\* configuration: both ladders null, or every units entry null, with the
\* prediction layer on or off.
C22_EarlyFusionReachesOutput ==
    (/\ pc # "BUILD"
     /\ cfg.CONCAT_FEATURES_BEFORE
     /\ NumAux >= 1
     /\ built.status = "ok") =>
        EarlyFusionInGraph(built.layers)

\* exactly one of fc_layers and dropout_rates is None, the other a non-empty
\* tuple
OneLadderNone ==
    \/ cfg.FC_LAYERS.isNone /\ ~cfg.DROPOUT_RATES.isNone
                            /\ cfg.DROPOUT_RATES.items # <<>>
    \/ cfg.DROPOUT_RATES.isNone /\ ~cfg.FC_LAYERS.isNone
                                /\ cfg.FC_LAYERS.items # <<>>

\* C23: when exactly one of fc_layers and dropout_rates is null and the
\* other a non-empty sequence, the builder and unfreezeModel both complete
\* without error: the builder returns a graph with no ladder layer for the
\* null ladder, and unfreezeModel counts no tail layer for it.
C23_OneNullLadderAccepted ==
    (pc # "BUILD" /\ OneLadderNone) =>
        /\ built.status = "ok"
        /\ pc # "ERROR"
        /\ \A i \in 1..Len(built.layers) :
              built.layers[i].role \notin {"fc", "fc_dropout"}

---------------------------------------------------------------------------
(* The Head Composer on ladders whose entries take several values (SpecLadder) *)

LadderConfigs ==
    {[Shipped EXCEPT !.CONCAT_FEATURES_BEFORE = cb,
                     !.FC_LAYERS = fc,
                     !.DROPOUT_RATES = dr,
                     !.DO_PREDICTIONS = dp] :
        cb \in BOOLEAN, dp \in BOOLEAN,
        fc \in Ladders({"64", "256"}, MaxPairs),
        dr \in Ladders({"0.3", "0.5"}, MaxPairs)}

LadderInit ==
    /\ cfg \in LadderConfigs
    /\ pc = "BUILD"
    /\ built = NoModel
    /\ model = NoModel
    /\ req = 0
    /\ span = {}
    /\ mi = 1
    /\ fold = 0
    /\ iter = 1
    /\ bound = [n \in {} |-> 0]
    /\ err = None
    /\ log = [p \in {} |-> 0]
    /\ StepIdle

SpecLadder == LadderInit /\ [][HeadBuild]_vars

\* the ladder layers of a graph, in model.layers order, as <<kind, argument>>
EmittedLadder(layers) ==
    LET lad == SelectSeq(layers, LAMBDA l : l.role \in {"fc", "fc_dropout"})
    IN  [i \in 1..Len(lad) |-> <<lad[i].kind, lad[i].arg>>]

\* what the ladder is to be for equal-length fc and dr, position by position
RECURSIVE ExpectedLadder(_, _)
ExpectedLadder(fc, dr) ==
    IF fc = <<>> THEN <<>>
    ELSE (IF Head(fc) = None THEN <<>>
          ELSE IF Head(dr) = None THEN << <<"Dense", Head(fc)>> >>
          ELSE << <<"Dense", Head(fc)>>, <<"Dropout", Head(dr)>> >>)
         \o ExpectedLadder(Tail(fc), Tail(dr))

\* C4: for equal-length fc_layers and dropout_rates the builder emits, in
\* position order, a dense layer for every non-null units entry, followed by a
\* dropout layer iff that position's rate is non-null, and nothing for a null
\* units entry; [256, None, 64] with [0.5, None, 0.3] gives dense 256,
\* dropout 0.5, dense 64, dropout 0.3.
C4_LadderPositional ==
    (/\ pc # "BUILD"
     /\ ~cfg.FC_LAYERS.isNone /\ ~cfg.DROPOUT_RATES.isNone
     /\ Len(cfg.FC_LAYERS.items) = Len(cfg.DROPOUT_RATES.items)) =>
        /\ built.status = "ok"
        /\ EmittedLadder(built.layers)
              = ExpectedLadder(cfg.FC_LAYERS.items, cfg.DROPOUT_RATES.items)
        /\ (/\ cfg.FC_LAYERS.items = <<"256", None, "64">>
            /\ cfg.DROPOUT_RATES.items = <<"0.5", None, "0.3">>) =>
              EmittedLadder(built.layers)
                 = << <<"Dense", "256">>, <<"Dropout", "0.5">>,
                      <<"Dense", "64">>, <<"Dropout", "0.3">> >>

\* C4 witness: the builder has run on [256, None, 64] / [0.5, None, 0.3] and
\* returned a graph with the four ladder layers.
C4_Witness ==
    /\ pc # "BUILD"
    /\ built.status = "ok"
    /\ cfg.FC_LAYERS = Lad(<<"256", None, "64">>)
    /\ cfg.DROPOUT_RATES = Lad(<<"0.5", None, "0.3">>)
    /\ Len(EmittedLadder(built.layers)) = 4

\* C11: an FC ladder and a dropout-rate ladder of different lengths are
\* rejected before any model is built: the builder returns no graph for them.
C11_MismatchedLaddersRejected ==
    (/\ pc # "BUILD"
     /\ ~cfg.FC_LAYERS.isNone /\ ~cfg.DROPOUT_RATES.isNone
     /\ Len(cfg.FC_LAYERS.items) # Len(cfg.DROPOUT_RATES.items)) =>
        built.status # "ok"

\* the ladder layers of a graph, in model.layers order
LadderLayers(layers) ==
    SelectSeq(layers, LAMBDA l : l.role \in {"fc", "fc_dropout"})

\* the layers of a graph that take the output of a Concatenate as input
FusionConsumers(layers) ==
    {i \in 1..Len(layers) : layers[i].src = "concat_layer"}

\* the units entries the loop over zip(fc_layers, dropout_rates) sees
ZippedUnits(fc, dr) == SubSeq(fc, 1, Min(Len(fc), Len(dr)))

\* the first non-null entry of a sequence that has one
RECURSIVE FirstNonNone(_)
FirstNonNone(s) ==
    IF Head(s) # None THEN Head(s) ELSE FirstNonNone(Tail(s))

\* the ladder has a non-null units entry
HasUnits ==
    /\ ~cfg.FC_LAYERS.isNone /\ ~cfg.DROPOUT_RATES.isNone
    /\ CountNonNone(ZippedUnits(cfg.FC_LAYERS.items,
                                cfg.DROPOUT_RATES.items)) >= 1

\* C21: with early fusion enabled and a ladder with at least one non-null
\* units entry, the early-fusion Concatenate output is the input of exactly
\* one dense layer, the first non-null one of the ladder; every later dense
\* and dropout layer of the ladder takes the running tensor as input.
C21_FusionFeedsFirstDense ==
    (pc # "BUILD" /\ cfg.CONCAT_FEATURES_BEFORE /\ HasUnits) =>
        LET lad == LadderLayers(built.layers)
        IN  /\ built.status = "ok"
            /\ Cardinality(FusionConsumers(built.layers)) = 1
            /\ lad[1].kind = "Dense"
            /\ lad[1].src = "concat_layer"
            /\ lad[1].arg = FirstNonNone(ZippedUnits(cfg.FC_LAYERS.items,
                                                     cfg.DROPOUT_RATES.items))
            /\ \A i \in 2..Len(lad) : lad[i].src = "feature_extractor"
            /\ Cardinality({i \in 1..Len(built.layers) :
                               built.layers[i].role = "concat_features"}) = 1

\* C21 witness: early fusion and a ladder whose first units entry is null
\* and which has two dense layers and a dropout layer after the fusion.
C21_Witness ==
    /\ pc # "BUILD"
    /\ built.status = "ok"
    /\ cfg.CONCAT_FEATURES_BEFORE
    /\ cfg.FC_LAYERS = Lad(<<None, "256", "64">>)
    /\ cfg.DROPOUT_RATES = Lad(<<"0.5", "0.5", None>>)
    /\ Len(LadderLayers(built.layers)) = 3

---------------------------------------------------------------------------
(* Fold/Model Sweep Orchestrator: classificationCustom                       *)
(* (src/magicClassification.py)                                              *)

NUM_FOLDS == 4

\* the backbones globalVariables.py has a batch size for, among those of
\* the sweeps
BATCH_SIZES == [InceptionV3 |-> 32, VGG16 |-> 16, VGG19 |-> 16]

\* line 79: batch_size_per_replica = BATCH_SIZES[model_name], at each model
\* of the sweep
BatchSizeRaises == cfg.MODELS[mi] \notin DOMAIN BATCH_SIZES

model_name == cfg.MODELS[mi]

\* the local names of classificationCustom that refer to objects of an
\* iteration, with the kind of object each one reaches.  A Keras tensor
\* (an input, a pooled activation, the embedding, the output) reaches the
\* layers of the model through its history.  compute_total_loss is not
\* listed: it reaches the loss object only through the cell of loss_object,
\* which "del loss_object" empties.
NameKind ==
    [input_data_layer |-> "model", input_layers |-> "model",
     input_features_layer |-> "model", model |-> "model", layer |-> "model",
     gap1 |-> "model", gap2 |-> "model", gap3 |-> "model", gap4 |-> "model",
     embedding |-> "model", arc_margin |-> "model",
     arc_margin_layer |-> "model", output |-> "model", model_arc |-> "model",
     loss_object |-> "loss", val_loss |-> "metric", optimizer |-> "optimizer",
     train_metric_1 |-> "metric", train_metric_2 |-> "metric",
     train_metrics |-> "metric", val_metric_1 |-> "metric",
     val_metric_2 |-> "metric", val_metrics |-> "metric"]

Names == DOMAIN NameKind

\* lines 156-166 / 393-403
InputNames ==
    {"input_data_layer", "input_layers"}
    \cup (IF NumAux >= 1 THEN {"input_features_layer"} ELSE {})

\* lines 209-224: the metric-learning head of the k-fold branch
PoolNames == {"gap1", "gap2", "gap3", "gap4", "embedding", "arc_margin"}
ArcNames == {"arc_margin_layer", "output", "model_arc"}

\* lines 230-262 / 450-491: loss, optimizer and metrics.  Without k-fold and
\* without validation val_loss and val_metrics are bound to None.
TrainingNames ==
    {"loss_object", "optimizer", "train_metric_1", "train_metric_2",
     "train_metrics"}
    \cup (IF cfg.DO_KFOLD \/ cfg.DO_VALIDATION
          THEN {"val_loss", "val_metric_1", "val_metric_2", "val_metrics"}
          ELSE {})

\* lines 295-305 / 521-530: the names TEARDOWN deletes
DeletedNames ==
    {"model", "loss_object", "val_loss", "optimizer", "train_metrics",
     "val_metrics"}
    \cup (IF cfg.DO_KFOLD THEN {"model_arc"} ELSE {})

\* load_model(CLASSIFICATION_CHECKPOINT_PATH): the checkpoint is taken to hold
\* the graph the Head Composer gives for this backbone and configuration
\* (the bare backbone where that configuration does not build)
load_model ==
    LET m == buildClassificationImageNetModel(
                 NumAux, model_name, cfg.DO_BATCH_NORM, cfg.INITIAL_DROPOUT,
                 cfg.CONCAT_FEATURES_BEFORE, cfg.CONCAT_FEATURES_AFTER,
                 cfg.FC_LAYERS, cfg.DROPOUT_RATES, cfg.DO_PREDICTIONS)
    IN  IF m.status = "ok" THEN m
        ELSE [status |-> "ok", layers |-> imagenet_model(model_name)]

\* the count that treats the VGG family as head-only
ToUnfreeze_HeadOnlyVGG(num_layers) ==
    IF model_name \in VGGFamily THEN 0
    ELSE IF cfg.UNFREEZE_FULL THEN num_layers
    ELSE cfg.NUM_UNFREEZE_LAYERS

\* lines 189-201 / 426-438: to_unfreeze
ToUnfreeze(num_layers) ==
    IF cfg.UNFREEZE_FULL THEN num_layers
    ELSE IF model_name \in VGGFamily THEN num_layers
    ELSE cfg.NUM_UNFREEZE_LAYERS

\* the result of a BUILD: the exception raised (or None), the names bound
\* on the way, and what model, to_unfreeze and the unfreeze span then are
Raised(exc, names, u) ==
    [exc |-> exc, names |-> names, built |-> u.built, model |-> u.model,
     req |-> u.req, span |-> u.span]

NothingBuilt == [built |-> NoModel, model |-> NoModel, req |-> req, span |-> span]

Loaded(m) == [built |-> m, model |-> m, req |-> req, span |-> span]

\* lines 99-132 / 337-368: the autoencoder branch reads input_layers, a name
\* this branch never binds
BuildAutoencoder ==
    Raised("NameError",
           {"input_data_layer"}
           \cup (IF NumAux >= 1 THEN {"input_features_layer"} ELSE {}),
           NothingBuilt)

\* lines 136-146: a tfimm backbone (one nested layer) with a dense head
TfimmModel(units) ==
    [status |-> "ok",
     layers |->
       <<Layer("InputLayer", "input_data_layer", None, None, TRUE),
         Layer("InputLayer", "input_features_layer", None, None, TRUE),
         Layer("TFImmModel", "backbone", None, None, TRUE),
         Layer("Concatenate", "concat_features", None, "feature_extractor", TRUE),
         Layer("Dense", "fc", units, "concat_layer", TRUE),
         Layer("Dense", "predictions", "num_classes", "feature_extractor", TRUE)>>]

\* lines 134-152: NUM_ADD_CLASSES[0] and FC_LAYERS[0] must exist;
\* lines 370-389: without k-fold the model is loaded from the checkpoint
BuildTfimm ==
    IF ~cfg.DO_KFOLD
    THEN Raised(None, {"model"}, Loaded(load_model))
    ELSE IF cfg.NUM_ADD_CLASSES = 0
    THEN Raised("IndexError", {"input_data_layer"}, NothingBuilt)
    ELSE IF cfg.FC_LAYERS.isNone
    THEN Raised("TypeError", {"input_data_layer", "input_features_layer"},
                NothingBuilt)
    ELSE IF Len(cfg.FC_LAYERS.items) = 0
    THEN Raised("IndexError", {"input_data_layer", "input_features_layer"},
                NothingBuilt)
    ELSE IF Head(cfg.FC_LAYERS.items) = None
    THEN Raised("TypeError", {"input_data_layer", "input_features_layer"},
                NothingBuilt)
    ELSE Raised(None, {"input_data_layer", "input_features_layer", "model"},
                Loaded(TfimmModel(Head(cfg.FC_LAYERS.items))))

\* the names bound once the model and, with UNFREEZE, the counting loop ran
ModelNames ==
    InputNames \cup {"model"} \cup (IF cfg.UNFREEZE THEN {"layer"} ELSE {})

\* lines 183-203 / 420-440: model = unfreezeModel(model, len(input_layers),
\* DO_BATCH_NORM, to_unfreeze)
Unfrozen(m, n) ==
    IF cfg.UNFREEZE
    THEN [built |-> m,
          model |-> [m EXCEPT !.layers =
                        unfreezeModel(m.layers, 1 + NumAux, cfg.DO_BATCH_NORM, n)],
          req |-> n,
          span |-> UnfreezeSpan(Len(m.layers), 1 + NumAux, cfg.DO_BATCH_NORM, n)]
    ELSE Loaded(m)

\* lines 209-224: the metric-learning head of the k-fold branch reads
\* model.layers[-14] and input_layers[1]
MetricHead(u) ==
    IF ~cfg.DO_KFOLD THEN Raised(None, ModelNames, u)
    ELSE IF Len(u.model.layers) < 14
    THEN Raised("IndexError", ModelNames \cup {"gap1", "gap2", "gap3"}, u)
    ELSE IF NumAux < 1
    THEN Raised("IndexError", ModelNames \cup PoolNames, u)
    ELSE Raised(None, ModelNames \cup PoolNames \cup ArcNames, u)

ImagenetLoaded(m) ==
    IF cfg.UNFREEZE /\ UnfreezeRaises
    THEN Raised("TypeError", ModelNames,
                [Loaded(m) EXCEPT !.req = ToUnfreeze(Len(m.layers))])
    ELSE MetricHead(Unfrozen(m, ToUnfreeze(Len(m.layers))))

\* lines 154-226 / 391-446.  Without LOAD_MODEL the call passes 15 arguments
\* (IMAGENET_WEIGHTS among them) to a function that declares 14 parameters.
BuildImagenet ==
    IF ~cfg.LOAD_MODEL
    THEN Raised("TypeError", InputNames, NothingBuilt)
    ELSE ImagenetLoaded(load_model)

\* BUILD up to the optimizer and the metrics
WithTrainingNames(b) ==
    IF b.exc # None THEN b
    ELSE [b EXCEPT !.names = b.names \cup TrainingNames]

BuildResult ==
    WithTrainingNames(IF BatchSizeRaises
                      THEN Raised("KeyError", {}, NothingBuilt)
                      ELSE IF cfg.BUILD_AUTOENCODER THEN BuildAutoencoder
                      ELSE IF cfg.USE_TFIMM_MODELS THEN BuildTfimm
                      ELSE BuildImagenet)

Phases == {"build", "bind", "train", "release", "clear", "sleep"}

Logged(p) == [log EXCEPT ![p] = @ + 1]

BuildStep(r) ==
    /\ bound' = [n \in Names |-> IF n \in r.names THEN iter ELSE bound[n]]
    /\ built' = r.built
    /\ model' = r.model
    /\ req' = r.req
    /\ span' = r.span
    /\ err' = r.exc
    /\ IF r.exc # None
       THEN pc' = "ERROR" /\ log' = log
       ELSE pc' = "BIND_OPTIMIZER_NAMES" /\ log' = Logged("build")

\* BUILD: the body of "with strategy.scope()" up to the metrics
Build ==
    /\ pc = "BUILD"
    /\ BuildStep(BuildResult)
    /\ UNCHANGED <<cfg, mi, fold, iter>>
    /\ UNCHANGED stepVars

\* lines 240-252: the class of the optimizer
OptimizerClass == IF cfg.LR_EXP THEN "Adam" ELSE cfg.OPTIMIZER

\* lines 267-272 / 493-498: inside K.name_scope(optimizer.__class__.__name__)
\* the i-th weight becomes tf.Variable(var, name='variable{}'.format(i))
VariableNames ==
    [i \in 1..n_weights |-> <<OptimizerClass, i - 1>>]

\* BIND_OPTIMIZER_NAMES: lines 267-272 / 493-498
BindOptimizerNames ==
    /\ pc = "BIND_OPTIMIZER_NAMES"
    /\ pc' = "TRAIN"
    /\ log' = Logged("bind")
    /\ opt_names' = Append(opt_names, VariableNames)
    /\ UNCHANGED <<cfg, built, model, req, span, mi, fold, iter, bound, err>>
    /\ UNCHANGED <<lossVars, foldVars, trainVars, n_weights>>

\* TRAIN: the call of classificationCustomTrain, which blocks until the
\* Training Loop returns.  The k-fold call passes model_arc, the other model.
Train ==
    /\ pc = "TRAIN"
    /\ IF cfg.DO_KFOLD /\ bound["model_arc"] = 0
       THEN pc' = "ERROR" /\ err' = "NameError" /\ log' = log
       ELSE pc' = "TEARDOWN" /\ err' = err /\ log' = Logged("train")
    /\ UNCHANGED <<cfg, built, model, req, span, mi, fold, iter, bound>>
    /\ UNCHANGED stepVars

\* TEARDOWN, first part: the del statements and K.clear_session()
Teardown ==
    /\ pc = "TEARDOWN"
    /\ bound' = [n \in Names |-> IF n \in DeletedNames THEN 0 ELSE bound[n]]
    /\ model' = NoModel
    /\ built' = NoModel
    /\ log' = [log EXCEPT !["release"] = @ + 1, !["clear"] = @ + 1]
    /\ pc' = "COOLDOWN"
    /\ UNCHANGED <<cfg, req, span, mi, fold, iter, err>>
    /\ UNCHANGED stepVars

\* the loops of lines 77 and 86: the next fold, the next model, or the end
NextPair ==
    IF cfg.DO_KFOLD /\ fold + 1 < NUM_FOLDS
    THEN pc' = "BUILD" /\ fold' = fold + 1 /\ mi' = mi /\ iter' = iter + 1
    ELSE IF mi < Len(cfg.MODELS)
    THEN pc' = "BUILD" /\ fold' = 0 /\ mi' = mi + 1 /\ iter' = iter + 1
    ELSE pc' = "DONE" /\ fold' = fold /\ mi' = mi /\ iter' = iter

\* a loop that goes on to the next pair without the sleep
Cooldown_NoSleep ==
    /\ pc = "COOLDOWN"
    /\ log' = log
    /\ NextPair
    /\ UNCHANGED <<cfg, built, model, req, span, bound, err>>
    /\ UNCHANGED stepVars

\* TEARDOWN, second part: time.sleep(120), then the next pair
Cooldown ==
    /\ pc = "COOLDOWN"
    /\ log' = Logged("sleep")
    /\ NextPair
    /\ UNCHANGED <<cfg, built, model, req, span, bound, err>>
    /\ UNCHANGED stepVars

\* the configurations of the sweep: br is (BUILD_AUTOENCODER,
\* USE_TFIMM_MODELS, LOAD_MODEL), un is (UNFREEZE, UNFREEZE_FULL), pol is
\* (LR_EXP, LR_LADDER, REDUCE_LR_PLATEAU), hd is the head (DO_BATCH_NORM,
\* FC_LAYERS, DROPOUT_RATES, DO_PREDICTIONS)
SweepConfigs ==
    {[Shipped EXCEPT !.MODELS = ms,
                     !.DO_KFOLD = kf,
                     !.BUILD_AUTOENCODER = br[1],
                     !.USE_TFIMM_MODELS = br[2],
                     !.LOAD_MODEL = br[3],
                     !.LOAD_FEATURES = lf,
                     !.UNFREEZE = un[1],
                     !.UNFREEZE_FULL = un[2],
                     !.NUM_UNFREEZE_LAYERS = n,
                     !.DO_VALIDATION = dv,
                     !.LR_EXP = pol[1],
                     !.LR_LADDER = pol[2],
                     !.REDUCE_LR_PLATEAU = pol[3],
                     !.DO_BATCH_NORM = hd[1],
                     !.FC_LAYERS = hd[2],
                     !.DROPOUT_RATES = hd[3],
                     !.DO_PREDICTIONS = hd[4]] :
        ms \in {<<"InceptionV3">>, <<"VGG16">>, <<"InceptionV3", "VGG16">>,
                <<"InceptionV3", "NASNetMobile">>},
        kf \in BOOLEAN,
        br \in {<<TRUE, FALSE, FALSE>>, <<FALSE, TRUE, FALSE>>,
                <<FALSE, FALSE, TRUE>>, <<FALSE, FALSE, FALSE>>},
        lf \in BOOLEAN,
        un \in {<<FALSE, FALSE>>, <<TRUE, FALSE>>, <<TRUE, TRUE>>},
        n \in {1, MaxUnfreeze}, dv \in BOOLEAN,
        pol \in BOOLEAN \X BOOLEAN \X BOOLEAN,
        hd \in {<<FALSE, NoneLadder, NoneLadder, FALSE>>,
                <<TRUE, Lad(<<"128">>), Lad(<<"0.5">>), TRUE>>}}

Init ==
    /\ cfg \in SweepConfigs
    /\ pc = "BUILD"
    /\ built = NoModel
    /\ model = NoModel
    /\ req = 0
    /\ span = {}
    /\ mi = 1
    /\ fold = 0
    /\ iter = 1
    /\ bound = [n \in Names |-> 0]
    /\ err = None
    /\ log = [p \in Phases |-> 0]
    /\ LossIdle
    /\ FoldIdle
    /\ n_weights \in 0..MaxOptVars
    /\ opt_names = <<>>
    /\ TrainIdle

Next == Build \/ BindOptimizerNames \/ Train \/ Teardown \/ Cooldown

Spec == Init /\ [][Next]_vars


---------------------------------------------------------------------------
(* Properties of the Fold/Model Sweep Orchestrator (Spec)                    *)

\* the phases of the current pair that have run to their end
Ran(ps) ==
    \A p \in Phases : log[p] = (IF p \in ps THEN iter ELSE iter - 1)

\* C1: every pair of the sweep goes through BUILD, BIND_OPTIMIZER_NAMES,
\* TRAIN and TEARDOWN in that order, and the BUILD of a pair begins only
\* when the object release, the session clear and the cooldown of every
\* earlier pair have run, with and without k-fold.
C1_PhaseOrder ==
    /\ pc = "BUILD" => Ran({})
    /\ pc = "BIND_OPTIMIZER_NAMES" => Ran({"build"})
    /\ pc = "TRAIN" => Ran({"build", "bind"})
    /\ pc = "TEARDOWN" => Ran({"build", "bind", "train"})
    /\ pc = "COOLDOWN" => Ran(Phases \ {"sleep"})
    /\ pc = "DONE" => Ran(Phases)
    /\ pc = "ERROR" => Ran({}) \/ Ran({"build", "bind"})

\* a k-fold sweep that has gone through every fold of its first backbone and
\* stands at the BUILD of its second one
C1_Witness ==
    /\ cfg.DO_KFOLD
    /\ pc = "BUILD"
    /\ mi = 2
    /\ fold = 0
    /\ iter = NUM_FOLDS + 1
    /\ log["sleep"] = NUM_FOLDS

\* C2: once the TEARDOWN of an iteration has run no name of the orchestrator
\* refers to an object of that iteration, so at the BUILD of the next
\* iteration nothing of the earlier one is referenced.
C2_NothingKeptAfterTeardown ==
    pc \in {"COOLDOWN", "BUILD", "DONE"} => \A n \in Names : bound[n] = 0

\* the learning-rate policies the configuration switches on: LR_EXP goes
\* into the optimizer (lines 240-243), the other two into the train call
Policies ==
    {p \in {"LR_EXP", "LR_LADDER", "REDUCE_LR_PLATEAU"} : cfg[p]}

\* C3: a configuration with two or more policy flags is rejected before any
\* model is built, and TRAIN runs with exactly one policy.
C3_OnePolicyOrRejected ==
    /\ Cardinality(Policies) >= 2 =>
          /\ bound["model"] = 0
          /\ log["build"] = 0
          /\ log["train"] = 0
    /\ pc \in {"TRAIN", "TEARDOWN"} => Cardinality(Policies) = 1

\* C12: a backbone of the sweep that the configuration has no batch size for
\* is reported before anything is allocated: no iteration of an earlier
\* backbone of the sweep is built or trained.
C12_UnknownBackboneFirst ==
    (\E i \in 1..Len(cfg.MODELS) : cfg.MODELS[i] \notin DOMAIN BATCH_SIZES) =>
        /\ log["build"] = 0
        /\ log["train"] = 0
        /\ \A n \in Names : bound[n] = 0

\* C16: the names BIND_OPTIMIZER_NAMES assigns within one iteration are
\* pairwise distinct, and the names of two different iterations of the
\* sweep are distinct from each other.
C16_OptimizerNamesUnique ==
    /\ \A it \in 1..Len(opt_names) :
          \A i \in 1..Len(opt_names[it]) : \A j \in 1..Len(opt_names[it]) :
             opt_names[it][i] = opt_names[it][j] => i = j
    /\ \A it \in 1..Len(opt_names) : \A jt \in 1..Len(opt_names) :
          it # jt =>
             {opt_names[it][i] : i \in 1..Len(opt_names[it])}
                \cap {opt_names[jt][j] : j \in 1..Len(opt_names[jt])} = {}

\* lines 209-212: the layers gap1..gap4 are pooled from, model.layers[-1],
\* [-5], [-9] and [-14], as places in model.layers
EmbeddingSources(layers) ==
    {Len(layers), Len(layers) - 4, Len(layers) - 8, Len(layers) - 13}

\* C17: in the metric-learning variant the four layers the embedding is
\* pooled from are backbone activations, whatever the head: none of them is
\* a head layer or lies downstream of the FC ladder.
C17_EmbeddingFromBackbone ==
    (pc = "BIND_OPTIMIZER_NAMES" /\ bound["model_arc"] = iter) =>
        \A i \in EmbeddingSources(model.layers) :
            model.layers[i].role = "backbone"

\* C19: a sweep over backbones the configuration knows, built by the
\* ImageNet builder, never stops short of DONE, and reaches it after
\* |models| x NUM_FOLDS iterations with k-fold and one iteration per model
\* without, each iteration having run TRAIN once.
C19_SweepCompletes ==
    (/\ \A i \in 1..Len(cfg.MODELS) : cfg.MODELS[i] \in DOMAIN BATCH_SIZES
     /\ ~cfg.BUILD_AUTOENCODER
     /\ ~cfg.USE_TFIMM_MODELS) =>
        /\ pc # "ERROR"
        /\ pc = "DONE" =>
              /\ iter = Len(cfg.MODELS) * (IF cfg.DO_KFOLD THEN NUM_FOLDS ELSE 1)
              /\ log["train"] = iter

\* the shipped branch of BUILD: k-fold, the ImageNet builder called anew
\* (no autoencoder, no tfimm model, LOAD_MODEL false), UNFREEZE true, on
\* backbones that have a batch size
ShippedBranch ==
    /\ cfg.DO_KFOLD
    /\ ~cfg.BUILD_AUTOENCODER
    /\ ~cfg.USE_TFIMM_MODELS
    /\ ~cfg.LOAD_MODEL
    /\ cfg.UNFREEZE
    /\ \A i \in 1..Len(cfg.MODELS) : cfg.MODELS[i] \in DOMAIN BATCH_SIZES

\* C24: with the shipped configuration the BUILD phase of every (model,
\* fold) iteration completes and is followed by TRAIN on the model it
\* produced: the call of the builder matches the parameters it declares, and
\* the input layers, the model and the metric-learning model are bound when
\* TRAIN starts.
C24_ShippedBuildCompletes ==
    ShippedBranch =>
        /\ pc # "ERROR"
        /\ err = None
        /\ pc = "TRAIN" =>
              /\ model.status = "ok"
              /\ \A n \in InputNames \cup ModelNames \cup ArcNames :
                    bound[n] = iter

\* BUILD has just run unfreezeModel on the model of this pair
UnfreezeRan ==
    /\ pc = "BIND_OPTIMIZER_NAMES"
    /\ cfg.UNFREEZE
    /\ ~cfg.BUILD_AUTOENCODER
    /\ ~cfg.USE_TFIMM_MODELS

MarkedBackbone == {i \in Marked : model.layers[i].role = "backbone"}

\* C9 as stated: with unfreeze-all the whole model is requested for every
\* backbone outside the VGG family, and a VGG backbone is trained head-only,
\* none of its layers unfrozen, whatever the flag.
C9_VGGHeadOnly ==
    UnfreezeRan =>
        /\ (cfg.UNFREEZE_FULL /\ model_name \notin VGGFamily)
              => req = Len(model.layers)
        /\ model_name \in VGGFamily => MarkedBackbone = {}

\* C9: with unfreeze-all the whole model is requested for every backbone,
\* the VGG family included; without it VGG16 and VGG19 are still requested
\* the whole model, so layers of their backbone are unfrozen whatever the
\* flag, and every other backbone is requested its NUM_UNFREEZE_LAYERS entry.
C9_UnfreezeAllOverrides ==
    UnfreezeRan =>
        /\ (cfg.UNFREEZE_FULL \/ model_name \in VGGFamily)
              => req = Len(model.layers)
        /\ (~cfg.UNFREEZE_FULL /\ model_name \notin VGGFamily)
              => req = cfg.NUM_UNFREEZE_LAYERS
        /\ model_name \in VGGFamily => MarkedBackbone # {}

\* a VGG16 pair of a sweep without unfreeze-all, after its BUILD
C9_Witness ==
    /\ UnfreezeRan
    /\ ~cfg.UNFREEZE_FULL
    /\ model_name = "VGG16"
    /\ req = Len(model.layers)
    /\ MarkedBackbone # {}

---------------------------------------------------------------------------
(* One data-parallel train step: the loss of compute_total_loss on every     *)
(* replica and its reduction over the replicas (SpecLoss).  Losses are       *)
(* whole numbers of sixteenths; a quotient is kept as the fraction num/den.  *)

\* MirroredStrategy(devices=["GPU:0", "GPU:1"]).num_replicas_in_sync
num_replicas_in_sync == 2

\* lines 79-80: batch_size = batch_size_per_replica * num_replicas_in_sync
batch_size == BATCH_SIZES[model_name] * num_replicas_in_sync

RECURSIVE Sum(_)
Sum(s) == IF s = <<>> THEN 0 ELSE Head(s) + Sum(Tail(s))

Frac(n, d) == [num |-> n, den |-> d]

FracAdd(a, b) == Frac(a.num * b.den + b.num * a.den, a.den * b.den)

FracEq(a, b) == a.num * b.den = b.num * a.den

\* the mean of the replica's own examples
compute_total_loss_Mean(per_gpu_loss) ==
    Frac(Sum(per_gpu_loss), Len(per_gpu_loss))

\* lines 233-236: loss_object has reduction NONE, so per_gpu_loss is the
\* vector of per-example losses; tf.nn.compute_average_loss sums it and
\* divides by global_batch_size
compute_total_loss(per_gpu_loss) ==
    Frac(Sum(per_gpu_loss), batch_size)

\* the Training Loop's reduction of the per-replica losses: their sum
RECURSIVE ReduceSum(_)
ReduceSum(fs) ==
    IF Len(fs) = 1 THEN Head(fs) ELSE FracAdd(Head(fs), ReduceSum(Tail(fs)))

\* the per-example losses of one replica: a full batch, a batch one short
\* of full, or a batch of one or two examples
ReplicaBatches(size) ==
    {[i \in 1..n |-> IF i = 1 THEN a ELSE b] :
        n \in {1, 2, size - 1, size}, a \in 0..MaxLoss, b \in 0..MaxLoss}

LossInit ==
    /\ cfg \in {[Shipped EXCEPT !.MODELS = <<m>>] : m \in {"InceptionV3", "VGG16"}}
    /\ pc = "TRAIN_STEP"
    /\ built = NoModel
    /\ model = NoModel
    /\ req = 0
    /\ span = {}
    /\ mi = 1
    /\ fold = 0
    /\ iter = 1
    /\ bound = [n \in {} |-> 0]
    /\ err = None
    /\ log = [p \in {} |-> 0]
    /\ replica_losses \in
          [1..num_replicas_in_sync -> ReplicaBatches(BATCH_SIZES[cfg.MODELS[1]])]
    /\ total_loss = None
    /\ FoldIdle
    /\ OptIdle
    /\ TrainIdle

\* one train step: every replica computes compute_total_loss on its share
\* of the batch and the results are summed
TrainStep ==
    /\ pc = "TRAIN_STEP"
    /\ total_loss' = ReduceSum([r \in 1..num_replicas_in_sync |->
                                  compute_total_loss(replica_losses[r])])
    /\ pc' = "REDUCED"
    /\ UNCHANGED <<cfg, built, model, req, span, replica_losses>>
    /\ UNCHANGED sweepVars
    /\ UNCHANGED <<foldVars, optVars, trainVars>>

SpecLoss == LossInit /\ [][TrainStep]_vars

\* the per-example losses of all replicas, one after the other
RECURSIVE Flatten(_)
Flatten(ss) == IF ss = <<>> THEN <<>> ELSE Head(ss) \o Flatten(Tail(ss))

\* the mean of the per-replica means
MeanOfMeans ==
    LET means == [r \in 1..num_replicas_in_sync |->
                    Frac(Sum(replica_losses[r]), Len(replica_losses[r]))]
        total == ReduceSum(means)
    IN  Frac(total.num, total.den * num_replicas_in_sync)

\* C13: the aggregated loss of a step is the sum of the per-example losses
\* over all replicas divided by the per-replica batch size times the number
\* of replicas, also for a partial batch; per-replica batches of 16 with
\* loss sums 1.0 and 3.0 (16 and 48 sixteenths) give 4/32 = 0.125 (2 sixteenths).
C13_SumOverGlobalBatch ==
    pc = "REDUCED" =>
        /\ FracEq(total_loss,
                  Frac(Sum(Flatten(replica_losses)),
                       BATCH_SIZES[model_name] * Len(replica_losses)))
        /\ (/\ BATCH_SIZES[model_name] = 16
            /\ Sum(replica_losses[1]) = 16
            /\ Sum(replica_losses[2]) = 48) =>
              FracEq(total_loss, Frac(16, 8))

\* a step whose second replica has a partial batch, where the aggregated
\* loss differs from the mean of the replica means
C13_Witness ==
    /\ pc = "REDUCED"
    /\ Len(replica_losses[1]) = BATCH_SIZES[model_name]
    /\ Len(replica_losses[2]) < BATCH_SIZES[model_name]
    /\ total_loss.num > 0
    /\ ~FracEq(total_loss, MeanOfMeans)

---------------------------------------------------------------------------
(* Fold splitting: shuffle(data_paths_list) and KFold(NUM_FOLDS,             *)
(* shuffle=True, random_state=RANDOM_STATE).split(...), lines 74-89, in two  *)
(* runs of the sweep over the same path list (SpecFold).  A path is the      *)
(* number of its place in the enumerated list.                               *)

\* the orders of 1..n
Orders(n) ==
    {p \in [1..n -> 1..n] : \A i \in 1..n : \A j \in 1..n : p[i] = p[j] => i = j}

\* sklearn.utils.shuffle without random_state draws from numpy's global
\* generator, which nothing seeds: any order may come out.  The orders
\* taken here are the rotations of the list and of its reverse.
ShuffleOutcomes(n) ==
    {[i \in 1..n |-> (((IF rev THEN n - i ELSE i - 1) + k) % n) + 1] :
        k \in 0..(n - 1), rev \in BOOLEAN}

\* KFold._iter_test_indices: the first n % n_splits folds have one index
\* more than the others
FoldSize(n, f) == (n \div NUM_FOLDS) + (IF f < n % NUM_FOLDS THEN 1 ELSE 0)

\* folds that all have n // n_splits indices, the rest left out of the count
FoldStart_NoRemainder(n, f) == f * (n \div NUM_FOLDS)

\* where the indices of fold f (0-based) start in the shuffled indices
FoldStart(n, f) == f * (n \div NUM_FOLDS) + Min(f, n % NUM_FOLDS)

\* val_ix of fold f: a run of consecutive entries of the shuffled indices
val_ix(f) ==
    LET n == Len(kperm)
    IN  {kperm[j] : j \in (FoldStart(n, f) + 1)..(FoldStart(n, f) + FoldSize(n, f))}

\* train_ix of fold f: every index whose test mask is not set
train_ix(f) == (1..Len(kperm)) \ val_ix(f)

\* L[ix] for an index array in increasing order
RECURSIVE TakeFrom(_, _, _)
TakeFrom(L, ix, i) ==
    IF i > Len(L) THEN <<>>
    ELSE (IF i \in ix THEN <<L[i]>> ELSE <<>>) \o TakeFrom(L, ix, i + 1)

Range(L) == {L[i] : i \in 1..Len(L)}

FoldInit ==
    /\ cfg = Shipped
    /\ pc = "SHUFFLE"
    /\ built = NoModel
    /\ model = NoModel
    /\ req = 0
    /\ span = {}
    /\ mi = 1
    /\ fold = 0
    /\ iter = 1
    /\ bound = [n \in {} |-> 0]
    /\ err = None
    /\ log = [p \in {} |-> 0]
    /\ LossIdle
    /\ OptIdle
    /\ TrainIdle
    /\ \E n \in (NUM_FOLDS - 1)..MaxPaths : kperm \in Orders(n)
    /\ run = 1
    /\ data_paths_list_shuffled = <<>>
    /\ splits = [r \in 1..2 |-> <<>>]

\* lines 74-75 and 84: the path list is shuffled; KFold.split raises
\* ValueError for fewer samples than folds
ShufflePaths ==
    /\ pc = "SHUFFLE"
    /\ data_paths_list_shuffled' \in ShuffleOutcomes(Len(kperm))
    /\ IF cfg.DO_KFOLD /\ Len(kperm) < NUM_FOLDS
       THEN pc' = "ERROR" /\ err' = "ValueError"
       ELSE pc' = (IF cfg.DO_KFOLD THEN "SPLIT" ELSE "READ") /\ err' = err
    /\ UNCHANGED <<cfg, built, model, req, span, mi, fold, iter, bound, log>>
    /\ UNCHANGED <<lossVars, optVars, trainVars, kperm, run, splits>>

\* lines 91-92: len(paths) // MAX_FILES_PER_PART
FileParts(paths) == Len(paths) \div MAX_FILES_PER_PART

\* lines 316-318 and 323-325: the same, with 0 replaced by 1
FilePartsAtLeastOne(paths) ==
    IF FileParts(paths) = 0 THEN 1 ELSE FileParts(paths)

\* the names an iteration passes to TRAIN
FoldData(train_paths_list, val_paths_list, max_fileparts_train, max_fileparts_val) ==
    [train_paths_list |-> train_paths_list,
     val_paths_list |-> val_paths_list,
     max_fileparts_train |-> max_fileparts_train,
     max_fileparts_val |-> max_fileparts_val]

\* lines 88-92: the paths of a fold and their file parts
KFoldData(train_paths_list, val_paths_list) ==
    FoldData(train_paths_list, val_paths_list,
             FileParts(train_paths_list), FileParts(val_paths_list))

\* lines 86-92: one fold of the loop over kfold.split(...); after the last
\* fold the second run of the sweep starts
SplitFold ==
    /\ pc = "SPLIT"
    /\ splits' = [splits EXCEPT ![run] = Append(@,
          KFoldData(TakeFrom(data_paths_list_shuffled, train_ix(fold), 1),
                    TakeFrom(data_paths_list_shuffled, val_ix(fold), 1)))]
    /\ IF fold + 1 < NUM_FOLDS
       THEN pc' = "SPLIT" /\ fold' = fold + 1 /\ run' = run
       ELSE IF run = 1
       THEN pc' = "SHUFFLE" /\ fold' = 0 /\ run' = 2
       ELSE pc' = "DONE" /\ fold' = fold /\ run' = run
    /\ UNCHANGED <<cfg, built, model, req, span, mi, iter, bound, err, log>>
    /\ UNCHANGED <<lossVars, optVars, trainVars, kperm, data_paths_list_shuffled>>

FoldNext == ShufflePaths \/ SplitFold

SpecFold == FoldInit /\ [][FoldNext]_vars

AllPaths == 1..Len(kperm)

\* C14: in every fold the train and validation path sets are disjoint and
\* their union is the full path list, and over the NUM_FOLDS folds of a run
\* the validation sets are pairwise disjoint and cover every path.
C14_FoldsPartition ==
    \A r \in DOMAIN splits :
        /\ \A f \in 1..Len(splits[r]) :
              /\ Range(splits[r][f].train_paths_list)
                    \cap Range(splits[r][f].val_paths_list) = {}
              /\ Range(splits[r][f].train_paths_list)
                    \cup Range(splits[r][f].val_paths_list) = AllPaths
              /\ Len(splits[r][f].train_paths_list)
                    + Len(splits[r][f].val_paths_list) = Len(kperm)
        /\ \A f \in 1..Len(splits[r]) : \A g \in 1..Len(splits[r]) :
              f # g => Range(splits[r][f].val_paths_list)
                          \cap Range(splits[r][g].val_paths_list) = {}
        /\ Len(splits[r]) = NUM_FOLDS =>
              UNION {Range(splits[r][f].val_paths_list) : f \in 1..NUM_FOLDS}
                 = AllPaths

\* a run over more paths than folds has split its last fold: the folds are
\* of different sizes
C14_Witness ==
    /\ Len(kperm) > NUM_FOLDS
    /\ Len(splits[1]) = NUM_FOLDS
    /\ Len(splits[1][1].val_paths_list) = 2
    /\ Len(splits[1][NUM_FOLDS].val_paths_list) = 1
    /\ kperm # [i \in 1..Len(kperm) |-> i]

\* C15: two runs of the sweep over the same path list with the same
\* RANDOM_STATE give every fold the same train and validation paths.
C15_SplitsRepeat ==
    pc = "DONE" => splits[1] = splits[2]

---------------------------------------------------------------------------
(* The paths and the file parts an iteration passes to TRAIN, with and       *)
(* without k-fold (SpecParts).                                               *)

PartsConfigs ==
    {[Shipped EXCEPT !.DO_KFOLD = kf, !.DO_VALIDATION = dv] :
        kf \in BOOLEAN, dv \in BOOLEAN}

PartsInit ==
    /\ cfg \in PartsConfigs
    /\ pc = "SHUFFLE"
    /\ built = NoModel
    /\ model = NoModel
    /\ req = 0
    /\ span = {}
    /\ mi = 1
    /\ fold = 0
    /\ iter = 1
    /\ bound = [n \in {} |-> 0]
    /\ err = None
    /\ log = [p \in {} |-> 0]
    /\ LossIdle
    /\ OptIdle
    /\ TrainIdle
    /\ \E n \in (NUM_FOLDS - 1)..MaxPaths : kperm \in Orders(n)
    /\ run = 1
    /\ data_paths_list_shuffled = <<>>
    /\ splits = [r \in 1..2 |-> <<>>]

\* lines 315-330: without k-fold the train paths are those of
\* TRAIN_FILEPATHS and, with DO_VALIDATION, the validation paths those of
\* VAL_FILEPATHS; without DO_VALIDATION both validation names are None
ReadPaths ==
    /\ pc = "READ"
    /\ \E nt \in 1..MaxPaths, nv \in 1..MaxPaths :
          LET train_paths_list == [i \in 1..nt |-> i]
              val_paths_list == [i \in 1..nv |-> i]
          IN  splits' = [splits EXCEPT ![run] = Append(@,
                 IF cfg.DO_VALIDATION
                 THEN FoldData(train_paths_list, val_paths_list,
                               FilePartsAtLeastOne(train_paths_list),
                               FilePartsAtLeastOne(val_paths_list))
                 ELSE FoldData(train_paths_list, None,
                               FilePartsAtLeastOne(train_paths_list), None))]
    /\ pc' = "DONE"
    /\ UNCHANGED <<cfg, built, model, req, span, mi, fold, iter, bound, err, log>>
    /\ UNCHANGED <<lossVars, optVars, trainVars, kperm, run,
                   data_paths_list_shuffled>>

PartsNext == ShufflePaths \/ SplitFold \/ ReadPaths

SpecParts == PartsInit /\ [][PartsNext]_vars

\* C25: in every iteration, with k-fold as well as without, the number of
\* training file parts passed to TRAIN is at least 1, and with validation
\* data so is the number of validation file parts, for any non-empty path
\* list, one shorter than MAX_FILES_PER_PART included.
C25_AtLeastOneFilePart ==
    \A r \in DOMAIN splits : \A f \in 1..Len(splits[r]) :
        /\ Len(splits[r][f].train_paths_list) >= 1 =>
              splits[r][f].max_fileparts_train >= 1
        /\ (cfg.DO_VALIDATION /\ Len(splits[r][f].val_paths_list) >= 1) =>
              splits[r][f].max_fileparts_val >= 1

---------------------------------------------------------------------------
(* The Training Loop (classificationCustomTrain, module train) with          *)
(* validation, epoch by epoch (SpecTrain).  Losses are in hundredths.        *)

\* the monitored metric is the validation loss: lower is better, and the
\* first observation is an improvement
Improved(v, b) == b = <<>> \/ v < b[1]

\* a counter that an improvement does not reset
NextWait_NoReset(improved, w) == w + 1

\* the epochs since the last improvement
NextWait(improved, w) == IF improved THEN 0 ELSE w + 1

\* OVERFITTING_THRESHOLD = 1.3: the validation loss is more than 1.3 times
\* the training loss
Overfit(t, v) == v * 10 > t * 13

TrainInit ==
    /\ cfg = [Shipped EXCEPT !.DO_KFOLD = FALSE]
    /\ pc = "TRAIN"
    /\ built = NoModel
    /\ model = NoModel
    /\ req = 0
    /\ span = {}
    /\ mi = 1
    /\ fold = 0
    /\ iter = 1
    /\ bound = [n \in {} |-> 0]
    /\ err = None
    /\ log = [p \in {} |-> 0]
    /\ LossIdle
    /\ FoldIdle
    /\ OptIdle
    /\ \E n \in 1..MaxEpochs :
          /\ val_losses \in [1..n -> {85, 90, 95, 100}]
          /\ train_losses \in [1..n -> {10, 80}]
    /\ patience \in 1..MaxPatience
    /\ epoch = 0
    /\ best = <<>>
    /\ wait = 0
    /\ checkpoints = <<>>
    /\ terminal = None

\* one epoch and what follows it: early stopping, overfitting, the
\* checkpoint on improvement, the end of the run
Epoch ==
    /\ pc = "TRAIN"
    /\ terminal = None
    /\ epoch < Len(val_losses)
    /\ LET e == epoch + 1
           improved == Improved(val_losses[e], best)
       IN  /\ epoch' = e
           /\ best' = IF improved THEN <<val_losses[e]>> ELSE best
           /\ wait' = NextWait(improved, wait)
           /\ checkpoints' = IF improved THEN Append(checkpoints, e)
                             ELSE checkpoints
           /\ terminal' =
                 IF wait' >= patience THEN "EARLY_STOPPED"
                 ELSE IF Overfit(train_losses[e], val_losses[e])
                 THEN "OVERFIT_STOPPED"
                 ELSE IF e = Len(val_losses) THEN "COMPLETED"
                 ELSE None
           /\ pc' = IF terminal' = None THEN "TRAIN" ELSE "TEARDOWN"
    /\ UNCHANGED <<cfg, built, model, req, span, val_losses, train_losses, patience>>
    /\ UNCHANGED sweepVars
    /\ UNCHANGED <<lossVars, foldVars, optVars>>

SpecTrain == TrainInit /\ [][Epoch]_vars

\* the validation loss of epoch e is no better than the best before it
NoImprovement(e) ==
    \E k \in 1..(e - 1) : val_losses[k] <= val_losses[e]

\* at epoch e the validation loss has not improved for `patience` epochs
Stale(e) ==
    e > patience /\ \A k \in (e - patience + 1)..e : NoImprovement(k)

\* the run of the example: NUM_EPOCHS=3, EARLY_STOPPING_PATIENCE=1,
\* validation losses 0.9, 0.95, 1.0, no overfitting
ExampleRun ==
    /\ val_losses = <<90, 95, 100>>
    /\ train_losses = <<80, 80, 80>>
    /\ patience = 1
    /\ terminal # None

\* early stopping at the first stale epoch, checkpoints at the improvements
EarlyStopRule ==
    /\ \A e \in 1..epoch :
          Stale(e) => e = epoch /\ terminal = "EARLY_STOPPED"
    /\ terminal = "EARLY_STOPPED" => Stale(epoch)
    /\ \A e \in 1..epoch :
          (\E i \in 1..Len(checkpoints) : checkpoints[i] = e)
             <=> ~NoImprovement(e)

=============================================================================
